---------------------------- MODULE Spec2Model ----------------------------
(***************************************************************************)
(* A model of the repair parser of json_parser.py (from_str and its        *)
(* helpers _extract_json_objects and _fix_malformed_json) and of the       *)
(* dispatch step of agent.py's agent_loop.                                 *)
(*                                                                         *)
(* Text is a sequence of characters; a character is a one-character TLA+   *)
(* string, except the backtick, written BT, and the backspace, written BS. *)
(* A decoded value is a record [t, s, kids, e]:                            *)
(*   t = "null" | "true" | "false" | "int" | "float" | "nan" | "inf" |     *)
(*       "-inf" | "str" | "arr" | "obj" | "pair";                          *)
(*   s     the characters of a string or key, or the sign and digits of a  *)
(*         number;                                                         *)
(*   kids  the elements of a sequence, the pairs of a mapping (in          *)
(*         insertion order), or the one value of a pair;                   *)
(*   e     the decimal point position of a float (value 0.d1d2.. * 10^e).  *)
(***************************************************************************)
EXTENDS Integers, Sequences, FiniteSets, TLC

VARIABLES
    input,       \* the text handed to from_str (input_str)
    nfrag,       \* how many fragments the text was built from
    pc,          \* position in from_str / in the harness
    raw,         \* from_str's local raw
    result,      \* the value from_str returned
    md_results,  \* from_str's local md_results
    obj_results, \* from_str's local obj_results
    tried,       \* per candidate of the last S2/S3 loop: "direct", "repaired" or "failed"
    objs,        \* spans returned by _extract_json_objects, as [start, stop] offsets
    stack,       \* _extract_json_objects' stack when its scan ended
    fixed,       \* from_str's local fixed: the last repaired candidate or input
    via,         \* the strategy that returned: "S0", "S0b", "S1", "S2", "S3", "S4" or "S5"
    round,       \* 1 for the first call, 2 for the call on the re-serialized value
    first,       \* the value the first call returned
    events,      \* agent.py: thread.events
    apc          \* agent.py: position of agent_loop

vars == <<input, nfrag, pc, raw, result, md_results, obj_results, tried, objs,
          stack, fixed, via, round, first, events, apc>>

-----------------------------------------------------------------------------
(* Characters *)

BT == "<bt>"
BS == "<bs>"
QUOTE == "\""
SQUOTE == "'"
BSL == "\\"
NL == "\n"

Digits == {"0", "1", "2", "3", "4", "5", "6", "7", "8", "9"}
Lower == {"a", "b", "c", "d", "e", "f", "g", "h", "i", "j", "k", "l", "m",
          "n", "o", "p", "q", "r", "s", "t", "u", "v", "w", "x", "y", "z"}
Upper == {"A", "B", "C", "D", "E", "F", "G", "H", "I", "J", "K", "L", "M",
          "N", "O", "P", "Q", "R", "S", "T", "U", "V", "W", "X", "Y", "Z"}
\* str.strip() and the pattern class \s
Space == {" ", "\t", "\n", "\r", "\f"}
\* the whitespace json.loads skips
JsonWs == {" ", "\t", "\n", "\r"}
\* characters json.loads refuses inside a string literal (strict mode)
Control == {"\t", "\n", "\r", "\f", BS}
\* the pattern class \w
WordCh == Lower \cup Upper \cup Digits \cup {"_"}
IdentStart == Lower \cup Upper \cup {"_"}
HexCh == Digits \cup {"a", "b", "c", "d", "e", "f", "A", "B", "C", "D", "E", "F"}

At(s, i) == IF i >= 1 /\ i <= Len(s) THEN s[i] ELSE "<eof>"

Sub(s, a, b) == IF a > b THEN <<>> ELSE SubSeq(s, a, b)

StartsWithAt(s, i, p) ==
    /\ i + Len(p) - 1 <= Len(s)
    /\ \A k \in 1..Len(p) : s[i + k - 1] = p[k]

\* str.strip(): the text without its leading and trailing whitespace
strip(s) ==
    LET keep == {i \in 1..Len(s) : s[i] \notin Space}
    IN  IF keep = {} THEN <<>>
        ELSE LET a == CHOOSE i \in keep : \A j \in keep : i <= j
                 b == CHOOSE i \in keep : \A j \in keep : i >= j
             IN  SubSeq(s, a, b)

\* the first index >= i whose character is not in class, Len(s)+1 if none
RunEnd(s, i, class) ==
    LET stops == {j \in i..Len(s) : s[j] \notin class}
    IN  IF stops = {} THEN Len(s) + 1
        ELSE CHOOSE j \in stops : \A k \in stops : j <= k

-----------------------------------------------------------------------------
(* Values *)

Val(t, s, kids, e) == [t |-> t, s |-> s, kids |-> kids, e |-> e]
JNull == Val("null", <<>>, <<>>, 0)
JTrue == Val("true", <<>>, <<>>, 0)
JFalse == Val("false", <<>>, <<>>, 0)
JStr(s) == Val("str", s, <<>>, 0)
JArr(kids) == Val("arr", <<>>, kids, 0)
JObj(pairs) == Val("obj", <<>>, pairs, 0)
JPair(k, v) == Val("pair", k, <<v>>, 0)
NoValue == Val("none", <<>>, <<>>, 0)

-----------------------------------------------------------------------------
(* json.loads *)

\* sys.int_max_str_digits: int() of a longer digit string raises ValueError
IntMaxStrDigits == 4300
\* decimal exponents past which a float literal reads as infinity / as zero
FloatMaxDecpt == 309
FloatMinDecpt == -323

Ok(v, i) == [st |-> "ok", v |-> v, i |-> i]
Err == [st |-> "err", v |-> NoValue, i |-> 0]
Raise == [st |-> "raise", v |-> NoValue, i |-> 0]

\* a scanner that skips no whitespace
SkipNoWs(s, i) == i

SkipWs(s, i) == RunEnd(s, i, JsonWs)

DigitVal(c) ==
    CASE c = "0" -> 0 [] c = "1" -> 1 [] c = "2" -> 2 [] c = "3" -> 3 [] c = "4" -> 4
      [] c = "5" -> 5 [] c = "6" -> 6 [] c = "7" -> 7 [] c = "8" -> 8 [] OTHER -> 9

RECURSIVE NatOf(_, _)
\* the number written by at most 4 leading digits of ds, saturating at 9999
NatOf(ds, acc) ==
    IF ds = <<>> THEN acc
    ELSE IF acc > 999 THEN 9999
    ELSE NatOf(Tail(ds), 10 * acc + DigitVal(Head(ds)))

\* the index of the last character of ds that is not "0", 0 if none
LastNonZero(ds) ==
    LET nz == {i \in 1..Len(ds) : ds[i] # "0"}
    IN  IF nz = {} THEN 0 ELSE CHOOSE i \in nz : \A j \in nz : i >= j

\* the float with significant digits sig and decimal exponent decpt
FloatVal(neg, sig, decpt) ==
    IF sig = <<>> \/ decpt < FloatMinDecpt
    THEN Val("float", IF neg THEN <<"-", "0">> ELSE <<"0">>, <<>>, 0)
    ELSE IF decpt > FloatMaxDecpt THEN Val(IF neg THEN "-inf" ELSE "inf", <<>>, <<>>, 0)
    ELSE Val("float", IF neg THEN <<"-">> \o sig ELSE sig, <<>>, decpt)

\* the digits ds with lead leading zeros, the point after the first npoint digits
FloatDigits(neg, ds, lead, npoint, ex) ==
    FloatVal(neg, Sub(ds, lead + 1, LastNonZero(ds)), npoint - lead + ex)

\* float(): the decimal value of intpart.fracpart * 10^ex, normalised
FloatOf(neg, intpart, fracpart, ex) ==
    FloatDigits(neg, intpart \o fracpart, RunEnd(intpart \o fracpart, 1, {"0"}) - 1,
                Len(intpart), ex)

\* NUMBER_RE, integer part (?:0|[1-9]\d*) from j0: the index after it
IntEnd(s, j0) == IF At(s, j0) = "0" THEN j0 + 1 ELSE RunEnd(s, j0, Digits)

\* NUMBER_RE, fraction (\.\d+)? from e: the index after it, e when it is absent
FracEnd(s, e) ==
    IF At(s, e) = "." /\ At(s, e + 1) \in Digits THEN RunEnd(s, e + 1, Digits) ELSE e

\* NUMBER_RE, exponent ([eE][-+]?\d+)? from f: where its digits would start
ExpDigits(s, f) == IF At(s, f + 1) \in {"+", "-"} THEN f + 2 ELSE f + 1

\* NUMBER_RE, exponent from f: the index after it, f when it is absent
ExpEnd(s, f) ==
    IF At(s, f) \in {"e", "E"} /\ At(s, ExpDigits(s, f)) \in Digits
    THEN RunEnd(s, ExpDigits(s, f), Digits)
    ELSE f

\* the exponent written in s[f..e-1], 0 when it is absent
ExpOf(s, f, e) ==
    IF e = f THEN 0
    ELSE IF At(s, f + 1) = "-" THEN 0 - NatOf(Sub(s, ExpDigits(s, f), e - 1), 0)
    ELSE NatOf(Sub(s, ExpDigits(s, f), e - 1), 0)

\* int(integer) when the match has neither fraction nor exponent
IntOf(neg, intpart, e) ==
    IF Len(intpart) > IntMaxStrDigits THEN Raise
    ELSE Ok(Val("int", IF neg /\ intpart # <<"0">> THEN <<"-">> \o intpart ELSE intpart,
                <<>>, 0), e)

\* the number matched with its integer part in s[j0..ie-1], fraction up to fe
\* and exponent up to ee
NumberValue(s, neg, j0, ie, fe, ee) ==
    IF At(s, j0) \notin Digits THEN Err
    ELSE IF fe = ie /\ ee = fe THEN IntOf(neg, Sub(s, j0, ie - 1), ie)
    ELSE Ok(FloatOf(neg, Sub(s, j0, ie - 1), Sub(s, ie + 1, fe - 1), ExpOf(s, fe, ee)), ee)

NumberFrac(s, neg, j0, ie, fe) == NumberValue(s, neg, j0, ie, fe, ExpEnd(s, fe))
NumberInt(s, neg, j0, ie) == NumberFrac(s, neg, j0, ie, FracEnd(s, ie))

\* the scanner's NUMBER_RE: (-?(?:0|[1-9]\d*))(\.\d+)?([eE][-+]?\d+)? at i
ParseNumber(s, i) ==
    IF At(s, i) = "-" THEN NumberInt(s, TRUE, i + 1, IntEnd(s, i + 1))
    ELSE NumberInt(s, FALSE, i, IntEnd(s, i))

\* the character an escape \c stands for, "<bad>" for an invalid escape
Unescape(c) ==
    CASE c = QUOTE -> QUOTE [] c = BSL -> BSL [] c = "/" -> "/" [] c = "b" -> BS
      [] c = "f" -> "\f" [] c = "n" -> "\n" [] c = "r" -> "\r" [] c = "t" -> "\t"
      [] OTHER -> "<bad>"

RECURSIVE ScanString(_, _, _)
\* py_scanstring: the string literal whose opening quote is before j
ScanString(s, j, acc) ==
    LET c == At(s, j)
    IN  IF j > Len(s) THEN Err
        ELSE IF c = QUOTE THEN Ok(JStr(acc), j + 1)
        ELSE IF c \in Control THEN Err
        ELSE IF c # BSL THEN ScanString(s, j + 1, Append(acc, c))
        ELSE IF At(s, j + 1) = "u"
        THEN IF \A k \in 2..5 : At(s, j + k) \in HexCh
             THEN ScanString(s, j + 6, Append(acc, "<u>"))
             ELSE Err
        ELSE IF j + 1 > Len(s) \/ Unescape(s[j + 1]) = "<bad>" THEN Err
        ELSE ScanString(s, j + 2, Append(acc, Unescape(s[j + 1])))

\* dict assignment: a repeated key keeps its first position and takes the last value
PutPair(pairs, k, v) ==
    IF \E n \in 1..Len(pairs) : pairs[n].s = k
    THEN [n \in 1..Len(pairs) |-> IF pairs[n].s = k THEN JPair(k, v) ELSE pairs[n]]
    ELSE Append(pairs, JPair(k, v))

RECURSIVE ParseValue(_, _), ParseElems(_, _, _), ParseMembers(_, _, _)
\* scan_once: the value that starts at i
ParseValue(s, i) ==
    LET c == At(s, i)
    IN  CASE c = QUOTE -> ScanString(s, i + 1, <<>>)
          [] c = "{" ->
                LET j == SkipWs(s, i + 1)
                IN  IF At(s, j) = "}" THEN Ok(JObj(<<>>), j + 1)
                    ELSE ParseMembers(s, j, <<>>)
          [] c = "[" ->
                LET j == SkipWs(s, i + 1)
                IN  IF At(s, j) = "]" THEN Ok(JArr(<<>>), j + 1)
                    ELSE ParseElems(s, j, <<>>)
          [] c = "n" /\ StartsWithAt(s, i, <<"n", "u", "l", "l">>) -> Ok(JNull, i + 4)
          [] c = "t" /\ StartsWithAt(s, i, <<"t", "r", "u", "e">>) -> Ok(JTrue, i + 4)
          [] c = "f" /\ StartsWithAt(s, i, <<"f", "a", "l", "s", "e">>) -> Ok(JFalse, i + 5)
          [] c = "N" /\ StartsWithAt(s, i, <<"N", "a", "N">>) ->
                Ok(Val("nan", <<>>, <<>>, 0), i + 3)
          [] c = "I" /\ StartsWithAt(s, i, <<"I", "n", "f", "i", "n", "i", "t", "y">>) ->
                Ok(Val("inf", <<>>, <<>>, 0), i + 8)
          [] c = "-" /\ StartsWithAt(s, i + 1, <<"I", "n", "f", "i", "n", "i", "t", "y">>) ->
                Ok(Val("-inf", <<>>, <<>>, 0), i + 9)
          [] OTHER -> ParseNumber(s, i)

\* JSONArray: the elements from j on, after "[" and the elements of acc
ParseElems(s, j, acc) ==
    LET After(r, k) ==
            IF At(s, k) = "]" THEN Ok(JArr(Append(acc, r.v)), k + 1)
            ELSE IF At(s, k) = "," THEN ParseElems(s, SkipWs(s, k + 1), Append(acc, r.v))
            ELSE Err
        Elem(r) == IF r.st # "ok" THEN r ELSE After(r, SkipWs(s, r.i))
    IN  Elem(ParseValue(s, j))

\* JSONObject: the members from j on, after "{" and the pairs of acc
ParseMembers(s, j, acc) ==
    LET After(pairs, k) ==
            IF At(s, k) = "}" THEN Ok(JObj(pairs), k + 1)
            ELSE IF At(s, k) = "," THEN ParseMembers(s, SkipWs(s, k + 1), pairs)
            ELSE Err
        Member(key, r) ==
            IF r.st # "ok" THEN r ELSE After(PutPair(acc, key.v.s, r.v), SkipWs(s, r.i))
        Colon(key, c) ==
            IF At(s, c) # ":" THEN Err ELSE Member(key, ParseValue(s, SkipWs(s, c + 1)))
        Key(key) == IF key.st # "ok" THEN Err ELSE Colon(key, SkipWs(s, key.i))
    IN  IF At(s, j) # QUOTE THEN Err ELSE Key(ScanString(s, j + 1, <<>>))

\* json.loads(s): st = "ok" with the value, "err" for JSONDecodeError,
\* "raise" for the ValueError of an over-long integer literal
json_loads(s) ==
    LET End(r) ==
            IF r.st # "ok" THEN r
            ELSE IF SkipWs(s, r.i) # Len(s) + 1 THEN Err
            ELSE r
    IN  End(ParseValue(s, SkipWs(s, 1)))

-----------------------------------------------------------------------------
(* _extract_json_objects *)

\* the first index >= i whose character is in class, Len(s)+1 if none
Find(s, i, class) ==
    LET hits == {j \in i..Len(s) : s[j] \in class}
    IN  IF hits = {} THEN Len(s) + 1
        ELSE CHOOSE j \in hits : \A k \in hits : j <= k

Matches(open_br, c) == (open_br = "{" /\ c = "}") \/ (open_br = "[" /\ c = "]")

RECURSIVE ExtractScan(_, _, _, _, _, _, _)
\* the loop of _extract_json_objects from index i on; start = 0 stands for None.
\* Returns the spans [start, stop] (1-based, inclusive) of the reported substrings
\* and the stack left when the text ends.
ExtractScan(text, i, stk, start, in_string, escape, results) ==
    LET ch == At(text, i)
    IN  IF i > Len(text)
        THEN [spans |-> IF stk # <<>> /\ start # 0
                        THEN Append(results, [start |-> start, stop |-> Len(text)])
                        ELSE results,
              stack |-> stk]
        ELSE IF escape
        THEN ExtractScan(text, i + 1, stk, start, in_string, FALSE, results)
        ELSE IF ch = BSL
        THEN ExtractScan(text, i + 1, stk, start, in_string, TRUE, results)
        ELSE IF ch = QUOTE
        THEN ExtractScan(text, i + 1, stk, start, ~in_string, FALSE, results)
        ELSE IF in_string
        THEN ExtractScan(text, i + 1, stk, start, in_string, FALSE, results)
        ELSE IF ch \in {"{", "["}
        THEN ExtractScan(text, i + 1, Append(stk, ch),
                         IF stk = <<>> THEN i ELSE start, in_string, FALSE, results)
        ELSE IF ch \in {"}", "]"} /\ stk # <<>>
        THEN LET open_br == stk[Len(stk)]
                 rest == SubSeq(stk, 1, Len(stk) - 1)
             IN  IF Matches(open_br, ch)
                 THEN IF rest = <<>> /\ start # 0
                      THEN ExtractScan(text, i + 1, rest, 0, in_string, FALSE,
                                       Append(results, [start |-> start, stop |-> i]))
                      ELSE ExtractScan(text, i + 1, rest, start, in_string, FALSE, results)
                 ELSE ExtractScan(text, i + 1, <<>>, 0, in_string, FALSE, results)
        ELSE ExtractScan(text, i + 1, stk, start, in_string, FALSE, results)

ExtractRun(text) == ExtractScan(text, 1, <<>>, 0, FALSE, FALSE, <<>>)

\* _extract_json_objects(text): the reported substrings, in order
_extract_json_objects(text) ==
    LET sp == ExtractRun(text).spans
    IN  [n \in 1..Len(sp) |-> SubSeq(text, sp[n].start, sp[n].stop)]

-----------------------------------------------------------------------------
(* _fix_malformed_json *)

RECURSIVE RemoveLineComments(_, _)
\* re.sub(r"(?<!:)//.*?$", "", text, flags=re.MULTILINE), from index i on
RemoveLineComments(s, i) ==
    IF i > Len(s) THEN <<>>
    ELSE IF s[i] = "/" /\ At(s, i + 1) = "/" /\ At(s, i - 1) # ":"
    THEN RemoveLineComments(s, Find(s, i + 2, {NL}))
    ELSE <<s[i]>> \o RemoveLineComments(s, i + 1)

\* the first index j >= i with s[j], s[j+1] = "*", "/", 0 if none
BlockCommentEnd(s, i) ==
    LET hits == {j \in i..Len(s) - 1 : s[j] = "*" /\ s[j + 1] = "/"}
    IN  IF hits = {} THEN 0 ELSE CHOOSE j \in hits : \A k \in hits : j <= k

RECURSIVE RemoveBlockComments(_, _)
\* re.sub(r"/\*.*?\*/", "", text, flags=re.DOTALL), from index i on
RemoveBlockComments(s, i) ==
    IF i > Len(s) THEN <<>>
    ELSE IF s[i] = "/" /\ At(s, i + 1) = "*" /\ BlockCommentEnd(s, i + 2) # 0
    THEN RemoveBlockComments(s, BlockCommentEnd(s, i + 2) + 2)
    ELSE <<s[i]>> \o RemoveBlockComments(s, i + 1)

RECURSIVE FixLeadingDot(_, _)
\* re.sub(r"(?<=[:\s\[,])\.(\d+)", r"0.\1", text), from index i on
FixLeadingDot(s, i) ==
    IF i > Len(s) THEN <<>>
    ELSE IF s[i] = "." /\ At(s, i - 1) \in ({":", "[", ","} \cup Space)
            /\ At(s, i + 1) \in Digits
    THEN LET e == RunEnd(s, i + 1, Digits)
         IN  <<"0", ".">> \o SubSeq(s, i + 1, e - 1) \o FixLeadingDot(s, e)
    ELSE <<s[i]>> \o FixLeadingDot(s, i + 1)

RECURSIVE SingleEnd(_, _)
\* where [^'\\]*(?:\\.[^'\\]*)*' started at j finds its closing quote, 0 if nowhere
SingleEnd(s, j) ==
    IF j > Len(s) THEN 0
    ELSE IF s[j] = SQUOTE THEN j
    ELSE IF s[j] = BSL
    THEN IF j + 1 <= Len(s) /\ s[j + 1] # NL THEN SingleEnd(s, j + 2) ELSE 0
    ELSE SingleEnd(s, j + 1)

RECURSIVE EscapeQuotes(_)
\* str.replace('"', '\\"')
EscapeQuotes(s) ==
    IF s = <<>> THEN <<>>
    ELSE (IF Head(s) = QUOTE THEN <<BSL, QUOTE>> ELSE <<Head(s)>>) \o EscapeQuotes(Tail(s))

RECURSIVE ConvertSingle(_, _)
\* re.sub(r"'([^'\\]*(?:\\.[^'\\]*)*)'", _convert_single, text), from index i on
ConvertSingle(s, i) ==
    IF i > Len(s) THEN <<>>
    ELSE IF s[i] = SQUOTE /\ SingleEnd(s, i + 1) # 0
    THEN LET e == SingleEnd(s, i + 1)
         IN  <<QUOTE>> \o EscapeQuotes(Sub(s, i + 1, e - 1)) \o <<QUOTE>>
             \o ConvertSingle(s, e + 1)
    ELSE <<s[i]>> \o ConvertSingle(s, i + 1)

RECURSIVE QuoteKeys(_, _)
\* key_pattern.sub(r'\1"\2"\3', text), from index i on
QuoteKeys(s, i) ==
    LET a == RunEnd(s, i + 1, Space)
        b == RunEnd(s, a + 1, WordCh)
        c == RunEnd(s, b, Space)
    IN  IF i > Len(s) THEN <<>>
        ELSE IF s[i] \in {"{", ","} /\ At(s, a) \in IdentStart /\ At(s, c) = ":"
        THEN SubSeq(s, i, a - 1) \o <<QUOTE>> \o SubSeq(s, a, b - 1) \o <<QUOTE>>
             \o SubSeq(s, b, c) \o QuoteKeys(s, c + 1)
        ELSE <<s[i]>> \o QuoteKeys(s, i + 1)

\* re.fullmatch(r"-?\d+(\.\d+)?([eE][+\-]?\d+)?", value)
IsNumberText(v) ==
    LET j0 == IF At(v, 1) = "-" THEN 2 ELSE 1
        d == RunEnd(v, j0, Digits)
        hasFrac == At(v, d) = "." /\ At(v, d + 1) \in Digits
        f == IF hasFrac THEN RunEnd(v, d + 1, Digits) ELSE d
        k == IF At(v, f + 1) \in {"+", "-"} THEN f + 2 ELSE f + 1
        hasExp == At(v, f) \in {"e", "E"} /\ At(v, k) \in Digits
        x == IF hasExp THEN RunEnd(v, k, Digits) ELSE f
    IN  d > j0 /\ x = Len(v) + 1

\* _quote_value, given group(1) and group(2) of the match
_quote_value(prefix, group2) ==
    LET value == strip(group2)
    IN  IF At(value, 1) \in {QUOTE, SQUOTE, "{", "["} THEN prefix \o group2
        ELSE IF value \in {<<"T", "R", "U", "E">>, <<"F", "A", "L", "S", "E">>}
        THEN prefix \o <<QUOTE>> \o value \o <<QUOTE>>
        ELSE IF value = <<"T", "r", "u", "e">> THEN prefix \o <<"t", "r", "u", "e">>
        ELSE IF value = <<"F", "a", "l", "s", "e">> THEN prefix \o <<"f", "a", "l", "s", "e">>
        ELSE IF value = <<"N", "o", "n", "e">> THEN prefix \o <<"n", "u", "l", "l">>
        ELSE IF value \in {<<"t", "r", "u", "e">>, <<"f", "a", "l", "s", "e">>,
                           <<"n", "u", "l", "l">>}
        THEN prefix \o value
        ELSE IF IsNumberText(value) THEN prefix \o value
        ELSE prefix \o <<QUOTE>> \o EscapeQuotes(value) \o <<QUOTE>>

ValueEnd == {",", "}", "]"}

\* the match of val_pattern, (:\s*)([^,\}\]]+?)(?=\s*[,\}\]]|$), at the colon s[i]:
\* p is where group(2) starts and q the index after it; q = 0 when nothing matches
ValueMatch(s, i) ==
    LET p == RunEnd(s, i + 1, Space)
        t == Find(s, p, ValueEnd)
        solid == {j \in p..t - 1 : s[j] \notin Space}
        lastSolid == CHOOSE j \in solid : \A k \in solid : j >= k
    IN  IF p <= Len(s) /\ s[p] \notin ValueEnd
        THEN IF t <= Len(s) THEN [p |-> p, q |-> lastSolid + 1]
             ELSE IF s[Len(s)] = NL /\ Len(s) > p THEN [p |-> p, q |-> Len(s)]
             ELSE [p |-> p, q |-> Len(s) + 1]
        ELSE IF p > i + 1 THEN [p |-> p - 1, q |-> p]
        ELSE [p |-> 0, q |-> 0]

RECURSIVE QuoteValues(_, _)
\* val_pattern.sub(_quote_value, text), from index i on
QuoteValues(s, i) ==
    LET m == ValueMatch(s, i)
    IN  IF i > Len(s) THEN <<>>
        ELSE IF s[i] = ":" /\ m.q # 0
        THEN _quote_value(SubSeq(s, i, m.p - 1), SubSeq(s, m.p, m.q - 1))
             \o QuoteValues(s, m.q)
        ELSE <<s[i]>> \o QuoteValues(s, i + 1)

RECURSIVE RemoveTrailingCommas(_, _)
\* re.sub(r",\s*([\}\]])", r"\1", text), from index i on
RemoveTrailingCommas(s, i) ==
    LET a == RunEnd(s, i + 1, Space)
    IN  IF i > Len(s) THEN <<>>
        ELSE IF s[i] = "," /\ At(s, a) \in {"}", "]"}
        THEN <<s[a]>> \o RemoveTrailingCommas(s, a + 1)
        ELSE <<s[i]>> \o RemoveTrailingCommas(s, i + 1)

RECURSIVE RemoveLeadingCommas(_, _)
\* re.sub(r"([\{\[])\s*,\s*", r"\1", text), from index i on
RemoveLeadingCommas(s, i) ==
    LET a == RunEnd(s, i + 1, Space)
    IN  IF i > Len(s) THEN <<>>
        ELSE IF s[i] \in {"{", "["} /\ At(s, a) = ","
        THEN <<s[i]>> \o RemoveLeadingCommas(s, RunEnd(s, a + 1, Space))
        ELSE <<s[i]>> \o RemoveLeadingCommas(s, i + 1)

RECURSIVE BalanceStack(_, _, _)
\* step 7's loop: the closers of expected closers after the characters from i on
BalanceStack(s, i, closers) ==
    LET ch == At(s, i)
        top == IF closers = <<>> THEN "<none>" ELSE closers[Len(closers)]
    IN  IF i > Len(s) THEN closers
        ELSE IF ch = "{" THEN BalanceStack(s, i + 1, Append(closers, "}"))
        ELSE IF ch = "[" THEN BalanceStack(s, i + 1, Append(closers, "]"))
        ELSE IF ch \in {"}", "]"} /\ top = ch
        THEN BalanceStack(s, i + 1, SubSeq(closers, 1, Len(closers) - 1))
        ELSE BalanceStack(s, i + 1, closers)

Reversed(s) == [n \in 1..Len(s) |-> s[Len(s) + 1 - n]]

\* step 7: text += ''.join(reversed(stack))
Balance(s) == s \o Reversed(BalanceStack(s, 1, <<>>))

\* steps 1 to 6 of _fix_malformed_json
Rewrites(text) ==
    LET t1 == RemoveBlockComments(RemoveLineComments(text, 1), 1)
        t2 == FixLeadingDot(t1, 1)
        t3 == ConvertSingle(t2, 1)
        t4 == QuoteKeys(t3, 1)
        t5 == QuoteValues(t4, 1)
    IN  RemoveLeadingCommas(RemoveTrailingCommas(t5, 1), 1)

_fix_malformed_json(text) == Balance(Rewrites(text))

-----------------------------------------------------------------------------
(* from_str *)

FenceClose == <<NL, BT, BT, BT>>

\* the first index q >= i where "\n```" starts, 0 if none
CloseAt(s, i) ==
    LET hits == {q \in i..Len(s) : StartsWithAt(s, q, FenceClose)}
    IN  IF hits = {} THEN 0 ELSE CHOOSE q \in hits : \A k \in hits : q <= k

\* the match of md_pattern, ```(?:\w*\s*)?\n(.*?)\n```, at i: p is the index of the
\* newline that ends the opening line and q where the closing "\n```" starts; p = 0
\* when nothing matches. \s* is greedy: the last newline of the whitespace run
\* after the tag that still leaves a closing fence is taken.
BlockMatch(s, i) ==
    LET w == RunEnd(s, i + 3, WordCh)
        e == RunEnd(s, w, Space)
        ps == {p \in w..e - 1 : s[p] = NL /\ CloseAt(s, p + 1) # 0}
        pmax == CHOOSE p \in ps : \A k \in ps : p >= k
    IN  IF StartsWithAt(s, i, <<BT, BT, BT>>) /\ ps # {}
        THEN [p |-> pmax, q |-> CloseAt(s, pmax + 1)]
        ELSE [p |-> 0, q |-> 0]

RECURSIVE MdBlocks(_, _)
\* re.findall(md_pattern, raw, flags=re.DOTALL), from index i on
MdBlocks(s, i) ==
    LET m == BlockMatch(s, i)
    IN  IF i > Len(s) THEN <<>>
        ELSE IF m.p # 0 THEN <<Sub(s, m.p + 1, m.q - 1)>> \o MdBlocks(s, m.q + 4)
        ELSE MdBlocks(s, i + 1)

RECURSIVE ReplaceEscaped(_, _)
\* str.replace('\\' + q, q)
ReplaceEscaped(s, q) ==
    IF s = <<>> THEN <<>>
    ELSE IF Len(s) >= 2 /\ s[1] = BSL /\ s[2] = q
    THEN <<q>> \o ReplaceEscaped(SubSeq(s, 3, Len(s)), q)
    ELSE <<Head(s)>> \o ReplaceEscaped(Tail(s), q)

\* one candidate of a strategy: json.loads, and on JSONDecodeError json.loads of
\* the repaired text. how = "direct" | "repaired" | "failed" | "raised"
DecodeOrRepair(s) ==
    LET Repaired(r) ==
            CASE r.st = "ok" -> [how |-> "repaired", v |-> r.v]
              [] r.st = "raise" -> [how |-> "raised", v |-> NoValue]
              [] OTHER -> [how |-> "failed", v |-> NoValue]
        Direct(d) ==
            CASE d.st = "ok" -> [how |-> "direct", v |-> d.v]
              [] d.st = "raise" -> [how |-> "raised", v |-> NoValue]
              [] OTHER -> Repaired(json_loads(_fix_malformed_json(s)))
    IN  Direct(json_loads(s))

\* what a strategy does: return a value, raise, or fall through to the next one
Return(v) == [st |-> "return", v |-> v]
Raised == [st |-> "raise", v |-> NoValue]
FallThrough == [st |-> "next", v |-> NoValue]

\* a Strategy 0 that unwraps nothing
Strategy0Skipped(raw_) == FallThrough

\* Strategy 0: whole payload is quoted -> unquote + unescape + parse
Strategy0(raw_) ==
    LET Decoded(d) ==
            CASE d.how \in {"direct", "repaired"} -> Return(d.v)
              [] d.how = "raised" -> Raised
              [] OTHER -> FallThrough
        Inner(inner) ==
            IF At(inner, 1) \in {"{", "["} THEN Decoded(DecodeOrRepair(inner))
            ELSE FallThrough
        Quoted(s) ==
            IF Len(s) >= 2 /\ s[1] = s[Len(s)] /\ s[1] \in {QUOTE, SQUOTE}
            THEN Inner(strip(ReplaceEscaped(Sub(s, 2, Len(s) - 1), s[1])))
            ELSE FallThrough
    IN  Quoted(strip(raw_))

\* Strategy 1: Try straightforward JSON parsing
Strategy1(raw_) ==
    LET Decoded(d) ==
            CASE d.st = "ok" -> Return(d.v)
              [] d.st = "raise" -> Raised
              [] OTHER -> FallThrough
    IN  Decoded(json_loads(raw_))

RECURSIVE Collect(_, _, _, _)
\* the for loop of Strategy 2 / Strategy 3 over the candidates from n on:
\* the decoded values so far, how each candidate went, and whether one raised
Collect(cands, n, acc, how) ==
    LET Step(d) ==
            IF d.how = "raised"
            THEN [raised |-> TRUE, vals |-> acc, how |-> Append(how, "raised")]
            ELSE IF d.how = "failed"
            THEN Collect(cands, n + 1, acc, Append(how, "failed"))
            ELSE Collect(cands, n + 1, Append(acc, d.v), Append(how, d.how))
    IN  IF n > Len(cands) THEN [raised |-> FALSE, vals |-> acc, how |-> how]
        ELSE Step(DecodeOrRepair(cands[n]))

\* an aggregation that keeps the first decode only
AggregateFirst(results) == results[1]

\* results[0] if len(results) == 1 else results
Aggregate(results) == IF Len(results) = 1 THEN results[1] ELSE JArr(results)

\* the candidates of Strategy 2: the stripped bodies of the fenced blocks
BlockCandidates(raw_) ==
    LET b == MdBlocks(raw_, 1) IN [n \in 1..Len(b) |-> strip(b[n])]

\* Strategy 2 / Strategy 3, given the loop's outcome
AfterLoop(c) ==
    IF c.raised THEN Raised
    ELSE IF c.vals # <<>> THEN Return(Aggregate(c.vals))
    ELSE FallThrough

\* a Strategy 4 that gives the text back without trying its repair
Strategy4AsText(raw_) == Return(JStr(raw_))

\* Strategy 4: Fix malformed JSON on the entire input; last resort: the original string
Strategy4(raw_) ==
    LET Decoded(d) ==
            CASE d.st = "ok" -> Return(d.v)
              [] d.st = "raise" -> Raised
              [] OTHER -> Return(JStr(raw_))
    IN  Decoded(json_loads(_fix_malformed_json(raw_)))

\* the outcome r of a strategy unless it fell through, else what comes after it
OrElse(r, after) == IF r.st # "next" THEN r ELSE after

Strategy2(raw_) == AfterLoop(Collect(BlockCandidates(raw_), 1, <<>>, <<>>))
Strategy3(raw_) == AfterLoop(Collect(_extract_json_objects(raw_), 1, <<>>, <<>>))

\* from_str(input_str) as a function: [st |-> "return" | "raise", v |-> the value]
from_str(input_str) ==
    LET Stripped(raw_) ==
            IF raw_ = <<>> THEN Return(JNull)
            ELSE OrElse(Strategy0(raw_), OrElse(Strategy1(raw_), OrElse(Strategy2(raw_),
                 OrElse(Strategy3(raw_), Strategy4(raw_)))))
    IN  Stripped(strip(input_str))

-----------------------------------------------------------------------------
(* json.dumps, for re-serializing a returned value *)

RECURSIVE NatDigits(_)
NatDigits(n) ==
    IF n < 10 THEN <<CHOOSE c \in Digits : DigitVal(c) = n>>
    ELSE Append(NatDigits(n \div 10), CHOOSE c \in Digits : DigitVal(c) = n % 10)

Zeros(n) == [k \in 1..n |-> "0"]

\* float.__repr__: positional for -4 < decpt <= 16, else d.ddde+XX
FloatRepr(v) ==
    LET neg == At(v.s, 1) = "-"
        ds == IF neg THEN Tail(v.s) ELSE v.s
        n == Len(ds)
        sign == IF neg THEN <<"-">> ELSE <<>>
        x == v.e - 1
        xd == NatDigits(IF x < 0 THEN 0 - x ELSE x)
    IN  IF ds = <<"0">> THEN sign \o <<"0", ".", "0">>
        ELSE IF v.e > 16 \/ v.e < -3
        THEN sign \o <<ds[1]>> \o (IF n > 1 THEN <<".">> \o Tail(ds) ELSE <<>>)
             \o <<"e", IF x < 0 THEN "-" ELSE "+">>
             \o (IF Len(xd) < 2 THEN <<"0">> ELSE <<>>) \o xd
        ELSE IF v.e <= 0 THEN sign \o <<"0", ".">> \o Zeros(0 - v.e) \o ds
        ELSE IF v.e >= n THEN sign \o ds \o Zeros(v.e - n) \o <<".", "0">>
        ELSE sign \o SubSeq(ds, 1, v.e) \o <<".">> \o SubSeq(ds, v.e + 1, n)

EscapeChar(c) ==
    CASE c = QUOTE -> <<BSL, QUOTE>> [] c = BSL -> <<BSL, BSL>> [] c = "\n" -> <<BSL, "n">>
      [] c = "\r" -> <<BSL, "r">> [] c = "\t" -> <<BSL, "t">> [] c = "\f" -> <<BSL, "f">>
      [] c = BS -> <<BSL, "b">> [] OTHER -> <<c>>

RECURSIVE EncodeChars(_)
EncodeChars(s) == IF s = <<>> THEN <<>> ELSE EscapeChar(Head(s)) \o EncodeChars(Tail(s))

RECURSIVE json_dumps(_), DumpItems(_, _)
\* json.dumps(v) with its default separators
json_dumps(v) ==
    CASE v.t = "null" -> <<"n", "u", "l", "l">>
      [] v.t = "true" -> <<"t", "r", "u", "e">>
      [] v.t = "false" -> <<"f", "a", "l", "s", "e">>
      [] v.t = "int" -> v.s
      [] v.t = "float" -> FloatRepr(v)
      [] v.t = "nan" -> <<"N", "a", "N">>
      [] v.t = "inf" -> <<"I", "n", "f", "i", "n", "i", "t", "y">>
      [] v.t = "-inf" -> <<"-", "I", "n", "f", "i", "n", "i", "t", "y">>
      [] v.t = "str" -> <<QUOTE>> \o EncodeChars(v.s) \o <<QUOTE>>
      [] v.t = "arr" -> <<"[">> \o DumpItems(v.kids, 1) \o <<"]">>
      [] v.t = "obj" -> <<"{">> \o DumpItems(v.kids, 1) \o <<"}">>
      [] OTHER -> <<QUOTE>> \o EncodeChars(v.s) \o <<QUOTE, ":", " ">> \o json_dumps(v.kids[1])

DumpItems(kids, n) ==
    IF n > Len(kids) THEN <<>>
    ELSE json_dumps(kids[n]) \o (IF n < Len(kids) THEN <<",", " ">> ELSE <<>>)
         \o DumpItems(kids, n + 1)

-----------------------------------------------------------------------------
(* The calls of from_str *)

MaxFrags == 4

\* the pieces the input text is built from
Frags == {<<"{">>, <<"}">>, <<"[">>, <<"]">>, <<QUOTE>>, <<SQUOTE>>,
          <<QUOTE, "a", QUOTE, ":">>, <<",">>, <<"1">>, <<BSL>>, <<".">>}

\* the state before any call, the caller holding text
InitWith(text) ==
    /\ input = text
    /\ nfrag = 0
    /\ pc = "feed"
    /\ raw = <<>>
    /\ result = NoValue
    /\ md_results = <<>>
    /\ obj_results = <<>>
    /\ tried = <<>>
    /\ objs = <<>>
    /\ stack = <<>>
    /\ fixed = <<>>
    /\ via = ""
    /\ round = 1
    /\ first = NoValue
    /\ events = <<>>
    /\ apc = "idle"

Init == InitWith(<<>>)

locals == <<raw, md_results, obj_results, tried, objs, stack, fixed>>
agent == <<events, apc>>

\* the caller's text grows by one piece
FeedFrom(frags, max) ==
    /\ pc = "feed"
    /\ nfrag < max
    /\ \E f \in frags : input' = input \o f
    /\ nfrag' = nfrag + 1
    /\ UNCHANGED <<pc, result, via, round, first, locals, agent>>

Feed == FeedFrom(Frags, MaxFrags)

\* the caller's text is one integer literal of IntMaxStrDigits + 1 digits
FeedLongInteger ==
    /\ pc = "feed"
    /\ input = <<>>
    /\ input' = [k \in 1..IntMaxStrDigits + 1 |-> "1"]
    /\ nfrag' = nfrag
    /\ pc' = "again"
    /\ UNCHANGED <<result, via, round, first, locals, agent>>

\* from_str is called: lines 24 to 26
Call ==
    /\ pc \in {"feed", "again"}
    /\ raw' = strip(input)
    /\ md_results' = <<>>
    /\ obj_results' = <<>>
    /\ tried' = <<>>
    /\ objs' = <<>>
    /\ stack' = <<>>
    /\ fixed' = <<>>
    /\ IF strip(input) = <<>>
       THEN pc' = "done" /\ result' = JNull /\ via' = "S0"
       ELSE pc' = "S0b" /\ result' = NoValue /\ via' = ""
    /\ UNCHANGED <<input, nfrag, round, first, agent>>

\* the strategy at position at returned, raised or fell through to position next
Outcome(r, at, next) ==
    /\ pc' = CASE r.st = "return" -> "done" [] r.st = "raise" -> "raised" [] OTHER -> next
    /\ result' = IF r.st = "return" THEN r.v ELSE result
    /\ via' = IF r.st = "return" THEN at ELSE via

\* lines 28 to 52
RunStrategy0 ==
    /\ pc = "S0b"
    /\ Outcome(Strategy0(raw), "S0b", "S1")
    /\ UNCHANGED <<input, nfrag, round, first, locals, agent>>

\* lines 54 to 58
RunStrategy1 ==
    /\ pc = "S1"
    /\ Outcome(Strategy1(raw), "S1", "S2")
    /\ UNCHANGED <<input, nfrag, round, first, locals, agent>>

\* the text of the last candidate the loop repaired, old if it repaired none
LastRepaired(cands, how, old) ==
    LET fix == {n \in 1..Len(how) : how[n] \in {"repaired", "failed"}
                                    \/ (how[n] = "raised" /\ json_loads(cands[n]).st = "err")}
    IN  IF fix = {} THEN old
        ELSE _fix_malformed_json(cands[CHOOSE n \in fix : \A k \in fix : n >= k])

\* lines 60 to 76
RunStrategy2 ==
    /\ pc = "S2"
    /\ LET Loop(c) ==
               /\ md_results' = c.vals
               /\ tried' = c.how
               /\ Outcome(AfterLoop(c), "S2", "S3")
       IN  Loop(Collect(BlockCandidates(raw), 1, <<>>, <<>>))
    /\ UNCHANGED <<input, nfrag, round, first, raw, obj_results, objs, stack, fixed, agent>>

\* lines 78 to 92
RunStrategy3 ==
    /\ pc = "S3"
    /\ LET Loop(cands, c) ==
               /\ obj_results' = c.vals
               /\ tried' = c.how
               /\ fixed' = LastRepaired(cands, c.how, fixed)
               /\ Outcome(AfterLoop(c), "S3", "S4")
           Scanned(run, cands) ==
               /\ objs' = run.spans
               /\ stack' = run.stack
               /\ Loop(cands, Collect(cands, 1, <<>>, <<>>))
       IN  Scanned(ExtractRun(raw), _extract_json_objects(raw))
    /\ UNCHANGED <<input, nfrag, round, first, raw, md_results, agent>>

\* lines 94 to 99
RunStrategy4 ==
    /\ pc = "S4"
    /\ LET Fixed(text, r) ==
               /\ fixed' = text
               /\ pc' = IF r.st = "raise" THEN "raised" ELSE "done"
               /\ result' = r.v
               /\ via' = CASE r.st = "raise" -> via
                           [] r.v = JStr(raw) /\ json_loads(text).st # "ok" -> "S5"
                           [] OTHER -> "S4"
       IN  Fixed(_fix_malformed_json(raw), Strategy4(raw))
    /\ UNCHANGED <<input, nfrag, round, first, raw, md_results, obj_results, tried,
                   objs, stack, agent>>

\* the returned non-string value is serialized and handed to from_str again
Reserialize ==
    /\ pc = "done"
    /\ round = 1
    /\ result.t # "str"
    /\ first' = result
    /\ input' = json_dumps(result)
    /\ round' = 2
    /\ pc' = "again"
    /\ UNCHANGED <<nfrag, result, via, locals, agent>>

Strategies ==
    \/ RunStrategy0
    \/ RunStrategy1
    \/ RunStrategy2
    \/ RunStrategy3
    \/ RunStrategy4

Next ==
    \/ Feed
    \/ FeedLongInteger
    \/ Call
    \/ Strategies
    \/ Reserialize

Spec == Init /\ [][Next]_vars
-----------------------------------------------------------------------------
(* The calls of from_str on texts with fenced blocks *)

MaxBlockFrags == 6

FenceOpen == <<BT, BT, BT, NL>>

\* the pieces a text with fenced blocks is built from
BlockFrags == {FenceOpen, FenceClose, <<"1">>, <<"[">>, <<"]">>}

FeedBlock == FeedFrom(BlockFrags, MaxBlockFrags)

NextBlocks ==
    \/ FeedBlock
    \/ Call
    \/ Strategies

SpecBlocks == Init /\ [][NextBlocks]_vars

-----------------------------------------------------------------------------
(* The calls of from_str on an object with one unquoted value *)

MaxValueFrags == 4

\* the text before the value
ObjectOpen == <<"{", QUOTE, "a", QUOTE, ":">>

\* the pieces the value is built from
ValueFrags == {<<" ">>, <<"x">>, <<"T", "R", "U", "E">>, <<"1">>, <<"0">>, <<"+">>,
               <<"-">>, <<BSL>>}

InitValues == InitWith(ObjectOpen)

FeedValue == FeedFrom(ValueFrags, MaxValueFrags)

\* the caller closes the object
CloseObject ==
    /\ pc = "feed"
    /\ nfrag > 0
    /\ input' = input \o <<"}">>
    /\ pc' = "again"
    /\ UNCHANGED <<nfrag, result, via, round, first, locals, agent>>

NextValues ==
    \/ FeedValue
    \/ CloseObject
    \/ Call
    \/ Strategies

SpecValues == InitValues /\ [][NextValues]_vars

-----------------------------------------------------------------------------
(* agent_loop *)

MaxTurns == 2

TextIntent == <<"i", "n", "t", "e", "n", "t">>
TextMessage == <<"m", "e", "s", "s", "a", "g", "e">>
TextDone == <<"d", "o", "n", "e", "_", "f", "o", "r", "_", "n", "o", "w">>
TextDivide == <<"d", "i", "v", "i", "d", "e">>
TextAdd == <<"a", "d", "d">>
TextMultiply == <<"m", "u", "l", "t", "i", "p", "l", "y">>
TextNumerator == <<"n", "u", "m", "e", "r", "a", "t", "o", "r">>
TextDenominator == <<"d", "e", "n", "o", "m", "i", "n", "a", "t", "o", "r">>

\* the JSON text of the string s, of the member k: v, of the object with members ms
Quoted(s) == <<QUOTE>> \o s \o <<QUOTE>>
Member(k, v) == Quoted(k) \o <<":">> \o v
RECURSIVE Joined(_)
Joined(ms) ==
    IF Len(ms) <= 1 THEN (IF ms = <<>> THEN <<>> ELSE ms[1])
    ELSE ms[1] \o <<",">> \o Joined(Tail(ms))
Object(ms) == <<"{">> \o Joined(ms) \o <<"}">>
ToolCall(tool, k1, v1, k2, v2) ==
    Object(<<Member(TextIntent, Quoted(tool)), Member(k1, v1), Member(k2, v2)>>)

\* what the model may answer (resp.parts[0].content)
Responses ==
    {<<"n", "u", "l", "l">>, <<"1">>, <<"x">>, TextIntent, <<"[", "1", "]">>,
     Object(<<Member(<<"a">>, <<"1">>)>>),
     Object(<<Member(TextIntent, Quoted(<<"x">>))>>),
     Object(<<Member(TextIntent, Quoted(TextDone))>>),
     Object(<<Member(TextIntent, Quoted(TextDone)), Member(TextMessage, Quoted(<<"x">>))>>),
     ToolCall(TextDivide, TextNumerator, <<"1">>, TextDenominator, <<"1">>),
     ToolCall(TextDivide, TextNumerator, <<"1">>, TextDenominator, <<"0">>),
     ToolCall(TextAdd, <<"a">>, <<"1">>, <<"b">>, <<"1">>),
     ToolCall(TextAdd, <<"a">>, Quoted(<<"1">>), <<"b">>, <<"1">>),
     ToolCall(TextMultiply, <<"a">>, <<"1">>, <<"b">>, <<"1">>)}

HasKey(data, key) == \E n \in 1..Len(data.kids) : data.kids[n].s = key
Field(data, key) == data.kids[CHOOSE n \in 1..Len(data.kids) : data.kids[n].s = key].kids[1]

\* "intent" in data: "yes", "no", or the TypeError of a value that is no container
HasIntent(data) ==
    CASE data.t = "obj" -> IF HasKey(data, TextIntent) THEN "yes" ELSE "no"
      [] data.t = "arr" ->
            IF \E n \in 1..Len(data.kids) : data.kids[n] = JStr(TextIntent)
            THEN "yes" ELSE "no"
      [] data.t = "str" ->
            IF \E i \in 1..Len(data.s) : StartsWithAt(data.s, i, TextIntent)
            THEN "yes" ELSE "no"
      [] OTHER -> "TypeError"

\* int, float and bool operands
IsNumber(v) == v.t \in {"int", "float", "true", "false", "inf", "-inf", "nan"}
IsZero(v) == v.t = "false" \/ (v.t \in {"int", "float"} /\ v.s \in {<<"0">>, <<"-", "0">>})

\* what the loop does with data: an event is appended, the loop returns, or an
\* exception leaves it
Appends(type, tool) == [kind |-> "event", type |-> type, tool |-> tool]
Returns == [kind |-> "return", type |-> "", tool |-> ""]
Throws(error) == [kind |-> "raise", type |-> error, tool |-> ""]

\* data["numerator"] / data["denominator"]
Divides(data) ==
    IF ~HasKey(data, TextNumerator) \/ ~HasKey(data, TextDenominator) THEN Throws("KeyError")
    ELSE IF ~IsNumber(Field(data, TextNumerator)) \/ ~IsNumber(Field(data, TextDenominator))
    THEN Throws("TypeError")
    ELSE IF IsZero(Field(data, TextDenominator)) THEN Throws("ZeroDivisionError")
    ELSE Appends("tool_result", "divide")

\* data["a"] + data["b"]
Adds(data) ==
    IF ~HasKey(data, <<"a">>) \/ ~HasKey(data, <<"b">>) THEN Throws("KeyError")
    ELSE IF \/ IsNumber(Field(data, <<"a">>)) /\ IsNumber(Field(data, <<"b">>))
            \/ Field(data, <<"a">>).t = "str" /\ Field(data, <<"b">>).t = "str"
            \/ Field(data, <<"a">>).t = "arr" /\ Field(data, <<"b">>).t = "arr"
    THEN Appends("tool_result", "add")
    ELSE Throws("TypeError")

\* data["a"] * data["b"]
Multiplies(data) ==
    IF ~HasKey(data, <<"a">>) \/ ~HasKey(data, <<"b">>) THEN Throws("KeyError")
    ELSE IF \/ IsNumber(Field(data, <<"a">>)) /\ IsNumber(Field(data, <<"b">>))
            \/ Field(data, <<"a">>).t \in {"str", "arr"}
                  /\ Field(data, <<"b">>).t \in {"int", "true", "false"}
            \/ Field(data, <<"a">>).t \in {"int", "true", "false"}
                  /\ Field(data, <<"b">>).t \in {"str", "arr"}
    THEN Appends("tool_result", "multiply")
    ELSE Throws("TypeError")

\* the branches on data["intent"]
Dispatches(data, intent) ==
    CASE intent = JStr(TextDone) ->
            IF HasKey(data, TextMessage) THEN Returns ELSE Throws("KeyError")
      [] intent = JStr(TextDivide) -> Divides(data)
      [] intent = JStr(TextAdd) -> Adds(data)
      [] intent = JStr(TextMultiply) -> Multiplies(data)
      [] OTHER -> Appends("probable_system_error", "")

\* lines 100 to 120
Handles(data) ==
    CASE HasIntent(data) = "TypeError" -> Throws("TypeError")
      [] HasIntent(data) = "no" -> Appends("probable_assistant_mistake", "")
      [] data.t # "obj" -> Throws("TypeError")
      [] OTHER -> Dispatches(data, Field(data, TextIntent))

Event(type, data, tool) == [type |-> type, data |-> data, tool |-> tool]

\* lines 78 to 98: the model answers, the answer is parsed and recorded
Respond ==
    /\ apc = "idle"
    /\ Len(events) < 2 * MaxTurns
    /\ \E resp \in Responses :
          LET Parsed(r) ==
                  IF r.st = "raise"
                  THEN apc' = "crashed" /\ UNCHANGED <<result, events>>
                  ELSE /\ result' = r.v
                       /\ events' = Append(events, Event("assistant_action", r.v, ""))
                       /\ apc' = "dispatch"
          IN  input' = resp /\ Parsed(from_str(resp))
    /\ UNCHANGED <<nfrag, pc, via, round, first, locals>>

\* lines 100 to 120: the parsed answer is acted on
Dispatch ==
    /\ apc = "dispatch"
    /\ LET Done(h) ==
               /\ apc' = CASE h.kind = "event" -> "idle"
                           [] h.kind = "return" -> "returned"
                           [] OTHER -> "crashed"
               /\ events' = IF h.kind = "event"
                            THEN Append(events, Event(h.type, NoValue, h.tool))
                            ELSE events
       IN  Done(Handles(result))
    /\ UNCHANGED <<input, nfrag, pc, result, via, round, first, locals>>

NextAgent ==
    \/ Respond
    \/ Dispatch

SpecAgent == Init /\ [][NextAgent]_vars

-----------------------------------------------------------------------------
(* Properties of from_str *)

\* C1: from_str returns for every text and never raises: no call ends in an
\* exception.
C1_NeverRaises == pc # "raised"

NoOpener(s) == \A i \in 1..Len(s) : s[i] \notin {"{", "["}

\* C2 as the specification words it: a text without "{" and "[" comes back as
\* the string input.strip().
C2_TrimmedString == (pc = "done" /\ NoOpener(input)) => result = JStr(strip(input))

\* what a text s without opener, without fenced block and with its blanks
\* trimmed comes back as
FallbackValue(s) ==
    LET Repaired(r) == IF r.st = "ok" THEN r.v ELSE JStr(s)
        Direct(d) ==
            IF d.st = "ok" THEN d.v ELSE Repaired(json_loads(_fix_malformed_json(s)))
    IN  IF s = <<>> THEN JNull ELSE Direct(json_loads(s))

\* C2, amended: for a text without "{", "[" and fenced block, a returning from_str
\* returns None when the trimmed text is empty, else its direct decode when it
\* decodes, else the decode of its repaired text when that decodes, and only
\* else the trimmed text as a string.
C2_Fallback ==
    (pc = "done" /\ NoOpener(input) /\ MdBlocks(strip(input), 1) = <<>>)
        => result = FallbackValue(strip(input))

\* a text without opener was returned as a number
C2_NumberReturned == pc = "done" /\ NoOpener(input) /\ result.t = "int"

RECURSIVE OutsideStrings(_, _, _)
\* the characters of s from i on that lie outside its double-quoted string literals;
\* inside a literal a backslash escapes the character after it
OutsideStrings(s, i, in_string) ==
    IF i > Len(s) THEN <<>>
    ELSE IF in_string
    THEN IF s[i] = BSL THEN OutsideStrings(s, i + 2, TRUE)
         ELSE OutsideStrings(s, i + 1, s[i] # QUOTE)
    ELSE IF s[i] = QUOTE THEN OutsideStrings(s, i + 1, TRUE)
    ELSE <<s[i]>> \o OutsideStrings(s, i + 1, FALSE)

Count(s, c) == Cardinality({i \in 1..Len(s) : s[i] = c})

BalancedOutsideStrings(s) ==
    /\ Count(OutsideStrings(s, 1, FALSE), "{") = Count(OutsideStrings(s, 1, FALSE), "}")
    /\ Count(OutsideStrings(s, 1, FALSE), "[") = Count(OutsideStrings(s, 1, FALSE), "]")

\* C3: every text _fix_malformed_json produced has as many "{" as "}" and as many
\* "[" as "]" outside its string literals.
C3_BracketBalance == BalancedOutsideStrings(fixed)

\* C4: a returned value that is not a string, serialized with json.dumps and
\* handed to from_str again, comes back equal: the second call never raises and
\* returns the value of the first.
C4_Idempotent == round = 2 => (pc # "raised" /\ (pc = "done" => result = first))

\* a mapping went through both calls
C4_MappingReparsed == round = 2 /\ pc = "done" /\ first.t = "obj" /\ first.kids # <<>>

RECURSIVE NestedFrom(_, _, _, _)
\* s from i on, read with the openers stk still open, closes its first opener
\* with its last character and closes every opener by a closer of its type;
\* brackets inside string literals do not count
NestedFrom(s, i, stk, in_string) ==
    IF i > Len(s) THEN FALSE
    ELSE IF in_string
    THEN IF s[i] = BSL THEN NestedFrom(s, i + 2, stk, TRUE)
         ELSE NestedFrom(s, i + 1, stk, s[i] # QUOTE)
    ELSE IF s[i] = QUOTE THEN NestedFrom(s, i + 1, stk, TRUE)
    ELSE IF s[i] \in {"{", "["} THEN NestedFrom(s, i + 1, Append(stk, s[i]), FALSE)
    ELSE IF s[i] \in {"}", "]"}
    THEN IF stk = <<>> THEN FALSE
         ELSE IF ~Matches(stk[Len(stk)], s[i]) THEN FALSE
         ELSE IF Len(stk) = 1 THEN i = Len(s)
         ELSE NestedFrom(s, i + 1, SubSeq(stk, 1, Len(stk) - 1), FALSE)
    ELSE NestedFrom(s, i + 1, stk, FALSE)

ProperlyNested(s) == At(s, 1) \in {"{", "["} /\ NestedFrom(s, 1, <<>>, FALSE)

\* C8: every candidate _extract_json_objects reports, the trailing partial one
\* excepted, starts at an opener, ends at the closer matching it and is properly
\* nested by bracket type outside its string literals; the candidates follow one
\* another without overlap.
C8_ProperCandidates ==
    /\ \A n \in 1..Len(objs) :
          (n < Len(objs) \/ stack = <<>>)
              => ProperlyNested(SubSeq(raw, objs[n].start, objs[n].stop))
    /\ \A n \in 1..Len(objs) - 1 : objs[n].stop < objs[n + 1].start

\* one closer per opener of stk, innermost first
ClosersOf(stk) == [n \in 1..Len(stk) |-> IF stk[Len(stk) + 1 - n] = "{" THEN "}" ELSE "]"]

\* C9: when the text ends inside an open span, the last candidate runs from the
\* outermost open opener to the end of the text, and its repair ends with exactly
\* one closer per opener the scanner still holds, innermost first.
C9_AutoClosed ==
    ((pc = "S4" \/ (pc = "done" /\ via = "S3")) /\ stack # <<>> /\ tried # <<>>
        /\ tried[Len(tried)] \in {"repaired", "failed"})
        => /\ objs # <<>>
           /\ objs[Len(objs)].stop = Len(raw)
           /\ fixed = Rewrites(SubSeq(raw, objs[Len(objs)].start, Len(raw)))
                          \o ClosersOf(stack)

\* C10 as the specification words it: a trimmed text that decodes directly comes
\* back as that decode.
C10_DirectDecodeWins ==
    (pc = "done" /\ json_loads(raw).st = "ok") => result = json_loads(raw).v

\* the text inside the quotes that wrap s, unescaped and trimmed
Unwrapped(s) == strip(ReplaceEscaped(Sub(s, 2, Len(s) - 1), s[1]))

\* s is wrapped in a pair of quotes around a text that begins with an opener and
\* decodes, directly or repaired
WrapsContainer(s) ==
    /\ Len(s) >= 2
    /\ s[1] = s[Len(s)]
    /\ s[1] \in {QUOTE, SQUOTE}
    /\ At(Unwrapped(s), 1) \in {"{", "["}
    /\ DecodeOrRepair(Unwrapped(s)).how \in {"direct", "repaired"}

\* C10, amended: a trimmed text that decodes directly comes back as that decode
\* through Strategy 1, unless it is wrapped in quotes around a text that begins
\* with "{" or "[" and decodes: then Strategy 0 returns the decode of that text.
C10_Precedence ==
    (pc = "done" /\ json_loads(raw).st = "ok")
        => IF WrapsContainer(raw)
           THEN via = "S0b" /\ result = DecodeOrRepair(Unwrapped(raw)).v
           ELSE via = "S1" /\ result = json_loads(raw).v

\* a JSON string literal was unwrapped by Strategy 0
C10_LiteralUnwrapped == pc = "done" /\ via = "S0b" /\ json_loads(raw).st = "ok"

\* the candidate c decodes, directly or after its repair
Decodes(c) ==
    json_loads(c).st = "ok" \/ json_loads(_fix_malformed_json(c)).st = "ok"

\* the direct decode of c where there is one, else the decode of its repair
FirstDecode(c) ==
    IF json_loads(c).st = "ok" THEN json_loads(c).v
    ELSE json_loads(_fix_malformed_json(c)).v

\* the decodes of the candidates that decode, in the candidates' order
Successes(cands) ==
    LET ok == SelectSeq(cands, Decodes) IN [n \in 1..Len(ok) |-> FirstDecode(ok[n])]

\* the one decode itself, several decodes as a sequence
OneOrAll(vals) == IF Len(vals) = 1 THEN vals[1] ELSE JArr(vals)

\* C6: past Strategy 0 and Strategy 1, from_str returns the decodes of the fenced
\* blocks (the one decode itself, several as a sequence in block order, failed
\* blocks left out); with no block decoded, the decodes of the extracted spans
\* by the same rule; with none decoded either, the result of Strategy 4.
C6_Aggregation ==
    (pc = "done" /\ via \notin {"S0", "S0b", "S1"})
        => IF Successes(BlockCandidates(raw)) # <<>>
           THEN /\ via = "S2"
                /\ md_results = Successes(BlockCandidates(raw))
                /\ result = OneOrAll(md_results)
           ELSE IF Successes(_extract_json_objects(raw)) # <<>>
           THEN /\ via = "S3"
                /\ md_results = <<>>
                /\ obj_results = Successes(_extract_json_objects(raw))
                /\ result = OneOrAll(obj_results)
           ELSE via \in {"S4", "S5"} /\ md_results = <<>> /\ obj_results = <<>>

\* two fenced blocks decoded and came back as a sequence
C6_TwoBlocksDecoded ==
    pc = "done" /\ via = "S2" /\ Len(md_results) = 2 /\ result = JArr(md_results)

\* the text between ObjectOpen and the closing brace of input
ValueText == Sub(input, Len(ObjectOpen) + 1, Len(input) - 1)

\* v is a number of the JSON grammar
IsJsonNumber(v) == json_loads(v).st = "ok" /\ json_loads(v).v.t \in {"int", "float"}

\* v is a value the repairer has to quote: no quote or opener in front, none of
\* the literals, no number
Bareword(v) ==
    /\ v # <<>>
    /\ v[1] \notin {QUOTE, SQUOTE, "{", "["}
    /\ v \notin {<<"t", "r", "u", "e">>, <<"f", "a", "l", "s", "e">>, <<"n", "u", "l", "l">>,
                 <<"T", "r", "u", "e">>, <<"F", "a", "l", "s", "e">>, <<"N", "o", "n", "e">>}
    /\ ~IsJsonNumber(v)

\* C5: an unquoted value after ":" that is no literal and no number is quoted
\* whole, so the object comes back with the trimmed value text as a string.
C5_QuotedWhole ==
    (pc = "done" /\ Len(input) > Len(ObjectOpen) /\ input[Len(input)] = "}"
        /\ Bareword(strip(ValueText)))
        => result = JObj(<<JPair(<<"a">>, JStr(strip(ValueText)))>>)

\* C7: whatever from_str returned, the loop records the answer and then a tool
\* result or an error event, and no exception leaves it.
C7_EveryAnswerHandled ==
    /\ apc # "crashed"
    /\ apc = "idle" =>
          \A n \in 1..Len(events) :
              IF n % 2 = 1 THEN events[n].type = "assistant_action"
              ELSE events[n].type \in {"tool_result", "probable_assistant_mistake",
                                       "probable_system_error"}

=============================================================================
